---- MODULE Spec2Model ----
(***************************************************************************)
(* Model of examples/demo-microservices/src/compute/engine.rs:             *)
(* ComputeEngine (numeric kernels over f64 slices) and OptimizationEngine  *)
(* (one-dimensional gradient descent).                                     *)
(*                                                                         *)
(* f64 in the ComputeEngine kernels is modelled as a binary floating-point *)
(* format of reduced width: Precision mantissa bits, exponents 0..MaxExp,  *)
(* round-to-nearest ties-to-even, overflow to +-Inf, NaN.  The unit is the *)
(* smallest positive value of the format, so every finite value is an      *)
(* integer m * 2^e with 0 <= m < 2^Precision.                              *)
(*                                                                         *)
(* f64 in OptimizationEngine is modelled in fixed point with unit h = 1e-5 *)
(* (the finite-difference step of the code), products kept exact.          *)
(***************************************************************************)
EXTENDS Integers, Sequences, FiniteSets

(* ------------------------- bounds of the model ------------------------- *)
Precision == 3
MaxExp == 3
MaxLen == 3
MaxDim == 3

(* ------------------------------ f64 ------------------------------------ *)
Abs(x) == IF x < 0 THEN -x ELSE x

MantLimit == 2 ^ Precision
MaxFinite == (MantLimit - 1) * (2 ^ MaxExp)
\* +-Inf and NaN: integers beyond every finite value and every exact sum or
\* product of finite values
Inf == 8 * MaxFinite * MaxFinite
NegInf == -Inf
NaN == Inf + 1

\* the non-negative finite values of the format
Reps == {m * (2 ^ e) : m \in 0 .. (MantLimit - 1), e \in 0 .. MaxExp}
Floats == {v : v \in Reps} \cup {-v : v \in Reps} \cup {Inf, NegInf, NaN}

IsNaN(x) == x = NaN
IsFinite(x) == x >= -MaxFinite /\ x <= MaxFinite

SetMax(S) == CHOOSE v \in S : \A w \in S : w <= v
SetMin(S) == CHOOSE v \in S : \A w \in S : v <= w

\* exponent and mantissa of a non-negative finite value
ExpOf(v) == SetMin({e \in 0 .. MaxExp : v \div (2 ^ e) < MantLimit})
MantOf(v) == v \div (2 ^ ExpOf(v))

\* n/d (n >= 0, d > 0) rounded to the nearest value of the format, ties to
\* the even mantissa: the mantissa is n/d scaled by the smallest exponent at
\* which it fits; a result above MaxFinite is Inf
RoundMag(n, d) ==
  LET e == Cardinality({k \in 0 .. (MaxExp - 1) : n >= d * MantLimit * (2 ^ k)})
      ulp == d * (2 ^ e)
      q == n \div ulp
      r == n % ulp
      m == IF 2 * r < ulp THEN q
           ELSE IF 2 * r > ulp THEN q + 1
           ELSE IF q % 2 = 0 THEN q ELSE q + 1
  IN IF m * (2 ^ e) > MaxFinite THEN Inf ELSE m * (2 ^ e)

\* the rational n/d (d # 0) as an f64
Round(n, d) ==
  IF (n >= 0) = (d > 0) \/ n = 0
  THEN RoundMag(Abs(n), Abs(d))
  ELSE -RoundMag(Abs(n), Abs(d))

FAdd(x, y) ==
  IF IsNaN(x) \/ IsNaN(y) THEN NaN
  ELSE IF ~IsFinite(x) THEN (IF ~IsFinite(y) /\ y # x THEN NaN ELSE x)
  ELSE IF ~IsFinite(y) THEN y
  ELSE Round(x + y, 1)

FNeg(x) == IF IsNaN(x) THEN NaN ELSE -x

FSub(x, y) == FAdd(x, FNeg(y))

Sign(x) == IF x > 0 THEN 1 ELSE IF x < 0 THEN -1 ELSE 0

FMul(x, y) ==
  IF IsNaN(x) \/ IsNaN(y) THEN NaN
  ELSE IF ~IsFinite(x) \/ ~IsFinite(y)
       THEN (IF x = 0 \/ y = 0 THEN NaN ELSE Sign(x) * Sign(y) * Inf)
  ELSE Round(x * y, 1)

FDiv(x, y) ==
  IF IsNaN(x) \/ IsNaN(y) THEN NaN
  ELSE IF ~IsFinite(x) THEN (IF ~IsFinite(y) THEN NaN
                             ELSE IF y < 0 THEN -x ELSE x)
  ELSE IF ~IsFinite(y) THEN 0
  ELSE IF y = 0 THEN (IF x = 0 THEN NaN ELSE Sign(x) * Inf)
  ELSE Round(x, y)

\* f64::sqrt, correctly rounded
FSqrt(x) ==
  IF IsNaN(x) \/ x < 0 THEN NaN
  ELSE IF x = Inf THEN Inf
  ELSE LET lo == SetMax({v \in Reps : v * v <= x})
       IN IF lo * lo = x \/ lo = MaxFinite THEN lo
          ELSE LET hi == SetMin({v \in Reps : v > lo})
               IN IF 4 * x < (lo + hi) * (lo + hi) THEN lo
                  ELSE IF 4 * x > (lo + hi) * (lo + hi) THEN hi
                  ELSE IF MantOf(lo) % 2 = 0 THEN lo ELSE hi

\* `n as f64` for a length n
FromLen(n) == Round(n, 1)

\* a <= b on f64 (false when either operand is NaN)
FLe(x, y) == ~IsNaN(x) /\ ~IsNaN(y) /\ x <= y

(* --------------------------- ComputeEngine ----------------------------- *)
Front(s) == SubSeq(s, 1, Len(s) - 1)
Last(s) == s[Len(s)]

\* data.iter().sum(): left fold from 0.0
RECURSIVE IterSum(_)
IterSum(s) == IF s = << >> THEN 0 ELSE FAdd(IterSum(Front(s)), Last(s))

\* data.iter().product(): left fold from 1.0
RECURSIVE IterProduct(_)
IterProduct(s) == IF s = << >> THEN 1 ELSE FMul(IterProduct(Front(s)), Last(s))

\* data.iter().map(|x| x * x)
MapSquare(s) == [i \in 1 .. Len(s) |-> FMul(s[i], s[i])]

\* ComputeEngine::new
HashMapNew == << >>
ComputeEngineNew(cfg) == [config |-> cfg, cache |-> HashMapNew]

perform_complex_calculation(data) ==
  LET sum == IterSum(data)
      product == IterProduct(data)
      squares == IterSum(MapSquare(data))
  IN FDiv(FAdd(FAdd(sum, product), squares), FromLen(Len(data)))

\* faulty variant: the empty slice is not special-cased
compute_heavy_task_Unguarded(data, duration) ==
  [success |-> TRUE, value |-> perform_complex_calculation(data),
   duration_ms |-> duration]

\* duration is start.elapsed().as_millis(), whatever the clock gives
compute_heavy_task(data, duration) ==
  LET result == IF Len(data) = 0 THEN 0 ELSE perform_complex_calculation(data)
  IN [success |-> TRUE, value |-> result, duration_ms |-> duration]

\* faulty variant: the k loop runs from the last index down
Accumulate_Descending(a, b, i, j, n) ==
  LET acc[k \in 0 .. n] ==
        IF k = 0 THEN 0
        ELSE FAdd(acc[k - 1], FMul(a[i][n + 1 - k], b[n + 1 - k][j]))
  IN acc[n]

\* result[i][j] after the k loop has run for k = 1 .. n (0-based 0 .. n-1)
RECURSIVE Accumulate(_, _, _, _, _)
Accumulate(a, b, i, j, n) ==
  IF n = 0 THEN 0
  ELSE FAdd(Accumulate(a, b, i, j, n - 1), FMul(a[i][n], b[n][j]))

\* a[i][k] or b[k][j] is read past the end of a row in the loops
IndexOutOfBounds(a, b, rows_a, cols_a, cols_b) ==
  /\ cols_b > 0
  /\ \/ \E i \in 1 .. rows_a : Len(a[i]) < cols_a
     \/ \E k \in 1 .. cols_a : Len(b[k]) < cols_b

\* faulty variant: the columns of a are compared with the columns of b
ShapeMismatch_Columns(a, b) == Len(a[1]) # Len(b[1])

\* if cols_a != b.len()
ShapeMismatch(a, b) == Len(a[1]) # Len(b)

multiply_matrices(a, b) ==
  IF Len(a) = 0 \/ Len(b) = 0 THEN [kind |-> "None"]
  ELSE LET rows_a == Len(a)
           cols_a == Len(a[1])
           cols_b == Len(b[1])
       IN IF ShapeMismatch(a, b) THEN [kind |-> "None"]
          ELSE IF IndexOutOfBounds(a, b, rows_a, cols_a, cols_b)
               THEN [kind |-> "panic"]
          ELSE [kind |-> "Some",
                value |-> [i \in 1 .. rows_a |->
                            [j \in 1 .. cols_b |-> Accumulate(a, b, i, j, cols_a)]]]

\* sorted.sort_by(|a, b| a.partial_cmp(b).unwrap()): insertion of v behind the
\* elements that are not greater
RECURSIVE InsertSorted(_, _)
InsertSorted(s, v) ==
  IF s = << >> THEN <<v>>
  ELSE IF FLe(Last(s), v) THEN Append(s, v)
  ELSE Append(InsertSorted(Front(s), v), Last(s))

\* faulty variant: the copy is never sorted
SortBy_Unsorted(s) == s

RECURSIVE SortBy(_)
SortBy(s) == IF s = << >> THEN << >> ELSE InsertSorted(SortBy(Front(s)), Last(s))

\* partial_cmp(..).unwrap() panics on the first comparison with a NaN; a
\* slice of fewer than two elements is never compared
SortPanics(s) == Len(s) >= 2 /\ \E i \in 1 .. Len(s) : IsNaN(s[i])

\* let mut sorted = data.to_vec(); sorted.sort_by(..): the sorted copy, and
\* the borrowed slice as the caller finds it afterwards
SortedCopy(data) == [sorted |-> SortBy(data), data |-> data]

\* faulty variant: the upper central element also for an even length
Median_UpperMiddle(sorted) == sorted[(Len(sorted) \div 2) + 1]

Median(sorted) ==
  LET n == Len(sorted)
  IN IF n % 2 = 0
     THEN FDiv(FAdd(sorted[n \div 2], sorted[(n \div 2) + 1]), 2)
     ELSE sorted[(n \div 2) + 1]

StatisticsDefault == [mean |-> 0, median |-> 0, std_dev |-> 0, min |-> 0, max |-> 0]

calculate_statistics(data) ==
  IF Len(data) = 0
  THEN [kind |-> "ok", stats |-> StatisticsDefault, data |-> data]
  ELSE LET sum == IterSum(data)
           mean == FDiv(sum, FromLen(Len(data)))
           sq == [i \in 1 .. Len(data) |-> FMul(FSub(data[i], mean), FSub(data[i], mean))]
           variance == FDiv(IterSum(sq), FromLen(Len(data)))
           std_dev == FSqrt(variance)
           copy == SortedCopy(data)
       IN IF SortPanics(data) THEN [kind |-> "panic", data |-> data]
          ELSE [kind |-> "ok",
                stats |-> [mean |-> mean,
                           median |-> Median(copy.sorted),
                           std_dev |-> std_dev,
                           min |-> copy.sorted[1],
                           max |-> Last(copy.sorted)],
                data |-> copy.data]

\* cos and sin of angle = -2 pi j / n as f64: the real value rounded to the
\* format, which holds -1, 0 and 1 in [-1, 1] (a magnitude of 1/2 ties to 0)
CosTurn(j, n) ==
  LET r == j % n
  IN IF 6 * r < n \/ 6 * r > 5 * n THEN 1
     ELSE IF n < 3 * r /\ 3 * r < 2 * n THEN -1
     ELSE 0

SinTurn(j, n) ==
  LET r == j % n
  IN IF n < 12 * r /\ 12 * r < 5 * n THEN -1
     ELSE IF 7 * n < 12 * r /\ 12 * r < 11 * n THEN 1
     ELSE 0

\* real and imag of bin k after the t loop has run over the first m samples
RECURSIVE FourierReal(_, _, _)
FourierReal(data, k, m) ==
  IF m = 0 THEN 0
  ELSE FAdd(FourierReal(data, k, m - 1),
            FMul(data[m], CosTurn(k * (m - 1), Len(data))))

RECURSIVE FourierImag(_, _, _)
FourierImag(data, k, m) ==
  IF m = 0 THEN 0
  ELSE FAdd(FourierImag(data, k, m - 1),
            FMul(data[m], SinTurn(k * (m - 1), Len(data))))

fourier_transform(data) ==
  [k \in 1 .. Len(data) |->
     [real |-> FourierReal(data, k - 1, Len(data)),
      imag |-> FourierImag(data, k - 1, Len(data))]]

\* faulty variant: the squares are collected in completion order, last first
compute_parallel_Unordered(data) ==
  [i \in 1 .. Len(data) |-> FMul(data[Len(data) + 1 - i], data[Len(data) + 1 - i])]

\* impl ParallelCompute for ComputeEngine
compute_parallel(data) == MapSquare(data)

(* ------------------------- OptimizationEngine -------------------------- *)
\* Fixed point: every value is an integer number of units h = 1e-5.
\* 1.0 is UnitsPerOne units (h = 1e-5), learning_rate = 0.01 = 1 / LearningRateInv
UnitsPerOne == 100000
LearningRateInv == 100
h == 1

\* n / d (d > 0) rounded to the nearest unit, ties to even
RoundDiv(n, d) ==
  LET q == Abs(n) \div d
      r == Abs(n) % d
      m == IF 2 * r < d THEN q
           ELSE IF 2 * r > d THEN q + 1
           ELSE IF q % 2 = 0 THEN q ELSE q + 1
  IN IF n < 0 THEN -m ELSE m

\* OptimizationEngine::new
OptimizationEngineNew(max_iterations, tolerance) ==
  [max_iterations |-> max_iterations, tolerance |-> tolerance]

\* the caller's closure f: here f(x) = (x - a)^2, in units of h^2
Apply(fn, x) == (x - fn.a) * (x - fn.a)

\* let grad = (f(x + h) - f(x - h)) / (2.0 * h)
Gradient(fn, x) == RoundDiv(Apply(fn, x + h) - Apply(fn, x - h), 2 * h)

\* let x_new = x - learning_rate * grad
Update(x, grad) == x - RoundDiv(grad, LearningRateInv)

\* faulty variant: the convergence test accepts a step equal to the tolerance
Converged_Le(xn, xo, tolerance) == Abs(xn - xo) <= tolerance

\* (x_new - x).abs() < self.tolerance
Converged(xn, xo, tolerance) == Abs(xn - xo) < tolerance

\* faulty variant: the range runs one iteration too far
LoopContinues_Inclusive(i, max_iterations) == i <= max_iterations

\* for _ in 0..self.max_iterations: another iteration is due after i of them
LoopContinues(i, max_iterations) == i < max_iterations

(* ------------------------------- inputs -------------------------------- *)
MaxDuration == 1
MaxIterSmall == 2
BigIter == 400

SeqsUpTo(S, n) == UNION {[1 .. k -> S] : k \in 0 .. n}

InputVals == {-12, -1, 0, 1, 3, 5, 12, MaxFinite, Inf, NaN} \cap Floats
Inputs == SeqsUpTo(InputVals, MaxLen)

MatVals == <<1, 3, -1, 12>>
\* an r x c matrix whose entries run through MatVals from position seed
PatternMatrix(r, c, seed) ==
  [i \in 1 .. r |->
    [j \in 1 .. c |-> MatVals[((seed + (i - 1) * c + (j - 1)) % Len(MatVals)) + 1]]]
\* row i of m one entry shorter (delta = -1) or longer (delta = 1); i = 0: m
Ragged(m, i, delta) ==
  IF i = 0 \/ i > Len(m) THEN m
  ELSE [m EXCEPT ![i] = IF delta < 0 THEN (IF @ = << >> THEN @ ELSE Front(@))
                        ELSE Append(@, 3)]
Matrices ==
  {Ragged(PatternMatrix(r, c, seed), i, delta) :
     r \in 0 .. MaxDim, c \in 0 .. MaxDim, seed \in 0 .. (Len(MatVals) - 1),
     i \in 0 .. MaxDim, delta \in {-1, 1}}

Configs == {[max_workers |-> 4, timeout_seconds |-> 30],
            [max_workers |-> 1, timeout_seconds |-> 0]}

Tolerances == {0, 1, 3, 30}
IterationLimits == (0 .. MaxIterSmall) \cup {BigIter}
StartPoints == {-1500, 0, 20, 2000, 40000}
Objectives == {[a |-> 0], [a |-> 300]}

(* -------------------------------- state -------------------------------- *)
VARIABLES
  engine,     \* the ComputeEngine: [config, cache]
  ctorConfig, \* the ComputeConfig given to ComputeEngine::new
  op,         \* the kernel whose result the caller holds, or "ready"
  data,       \* its slice argument, as passed
  matA, matB, \* its matrix arguments
  result,     \* what it returned
  dataAfter,  \* the caller's slice once the call has returned
  opt,        \* the OptimizationEngine: [max_iterations, tolerance]
  fn,         \* gradient_descent's closure argument
  pc,         \* gradient_descent: "idle", "loop", "return", "done"
  x,          \* its mut x
  x_prev,     \* x at the head of the last iteration
  x_new,      \* x_new of the last iteration
  iter,       \* iterations of the for loop run so far
  evals,      \* calls of f so far
  broke,      \* the loop was left by break
  ret         \* the value returned

kernelVars == <<op, data, matA, matB, result, dataAfter>>
engineVars == <<engine, ctorConfig>>
gdVars == <<opt, fn, pc, x, x_prev, x_new, iter, evals, broke, ret>>
vars == <<engine, ctorConfig, op, data, matA, matB, result, dataAfter,
          opt, fn, pc, x, x_prev, x_new, iter, evals, broke, ret>>

NoCall ==
  /\ op = "ready" /\ data = << >> /\ matA = << >> /\ matB = << >>
  /\ result = [kind |-> "none"] /\ dataAfter = << >>

GDIdle ==
  /\ fn = [a |-> 0] /\ pc = "idle" /\ x = 0 /\ x_prev = 0 /\ x_new = 0
  /\ iter = 0 /\ evals = 0 /\ broke = FALSE /\ ret = 0

(* ----------------------- ComputeEngine: the calls ---------------------- *)
Init ==
  /\ \E cfg \in Configs : engine = ComputeEngineNew(cfg) /\ ctorConfig = cfg
  /\ NoCall
  /\ opt = OptimizationEngineNew(0, 0)
  /\ GDIdle

\* faulty variant: the kernel memoizes its value in the cache
HeavyTaskCall_Memoizing ==
  /\ op = "ready"
  /\ \E d \in Inputs, dur \in 0 .. MaxDuration :
       /\ op' = "compute_heavy_task"
       /\ data' = d /\ dataAfter' = d
       /\ result' = compute_heavy_task(d, dur)
       /\ engine' = [engine EXCEPT
                       !.cache = [key \in {"heavy"} |-> compute_heavy_task(d, dur).value]]
       /\ UNCHANGED <<ctorConfig, matA, matB, gdVars>>

HeavyTaskCall ==
  /\ op = "ready"
  /\ \E d \in Inputs, dur \in 0 .. MaxDuration :
       /\ op' = "compute_heavy_task"
       /\ data' = d /\ dataAfter' = d
       /\ result' = compute_heavy_task(d, dur)
       /\ engine' = engine
       /\ UNCHANGED <<ctorConfig, matA, matB, gdVars>>

MultiplyCall ==
  /\ op = "ready"
  /\ \E a \in Matrices, b \in Matrices :
       /\ op' = "multiply_matrices"
       /\ matA' = a /\ matB' = b
       /\ result' = multiply_matrices(a, b)
       /\ engine' = engine
       /\ UNCHANGED <<ctorConfig, data, dataAfter, gdVars>>

StatisticsCall ==
  /\ op = "ready"
  /\ \E d \in Inputs :
       LET r == calculate_statistics(d)
       IN /\ op' = "calculate_statistics"
          /\ data' = d /\ dataAfter' = r.data
          /\ result' = r
          /\ engine' = engine
          /\ UNCHANGED <<ctorConfig, matA, matB, gdVars>>

FourierCall ==
  /\ op = "ready"
  /\ \E d \in Inputs :
       /\ op' = "fourier_transform"
       /\ data' = d /\ dataAfter' = d
       /\ result' = fourier_transform(d)
       /\ engine' = engine
       /\ UNCHANGED <<ctorConfig, matA, matB, gdVars>>

ParallelCall ==
  /\ op = "ready"
  /\ \E d \in Inputs :
       /\ op' = "compute_parallel"
       /\ data' = d /\ dataAfter' = d
       /\ result' = compute_parallel(d)
       /\ engine' = engine
       /\ UNCHANGED <<ctorConfig, matA, matB, gdVars>>

\* the caller is done with the result; the engine lives on
ResultDropped ==
  /\ op # "ready"
  /\ op' = "ready" /\ data' = << >> /\ matA' = << >> /\ matB' = << >>
  /\ result' = [kind |-> "none"] /\ dataAfter' = << >>
  /\ UNCHANGED <<engineVars, gdVars>>

Next ==
  \/ HeavyTaskCall
  \/ MultiplyCall
  \/ StatisticsCall
  \/ FourierCall
  \/ ParallelCall
  \/ ResultDropped

Spec == Init /\ [][Next]_vars

(* -------------------- ComputeEngine: what it returns ------------------- *)
Range(s) == {s[i] : i \in 1 .. Len(s)}
NaNFree(s) == \A i \in 1 .. Len(s) : ~IsNaN(s[i])
IsRectangular(m) == \A i \in 1 .. Len(m) : Len(m[i]) = Len(m[1])

\* t(1) + ... + t(n) in IEEE arithmetic, from 0.0 in ascending index order
AscendingSum(t(_), n) ==
  LET acc[k \in 0 .. n] == IF k = 0 THEN 0 ELSE FAdd(acc[k - 1], t(k))
  IN acc[n]

\* t(1) * ... * t(n) in IEEE arithmetic, from 1.0 in ascending index order
AscendingProduct(t(_), n) ==
  LET acc[k \in 0 .. n] == IF k = 0 THEN 1 ELSE FMul(acc[k - 1], t(k))
  IN acc[n]

\* the k-th smallest element of a NaN-free sequence
KthSmallest(s, k) ==
  CHOOSE v \in Range(s) :
    /\ Cardinality({i \in 1 .. Len(s) : s[i] < v}) < k
    /\ Cardinality({i \in 1 .. Len(s) : s[i] <= v}) >= k

\* C2: multiply_matrices returns None exactly when A is empty, B is empty or
\* len(A[0]) differs from the row count of B; rectangular non-empty operands
\* with columns(A) = rows(B) give a present result
C2_NoneIffShapeFailure ==
  op = "multiply_matrices" =>
     /\ (result.kind = "None") <=>
           (matA = << >> \/ matB = << >> \/ Len(matA[1]) # Len(matB))
     /\ ( /\ matA # << >> /\ matB # << >>
          /\ IsRectangular(matA) /\ IsRectangular(matB)
          /\ Len(matA[1]) = Len(matB) ) => result.kind = "Some"

C2_Witness ==
  /\ op = "multiply_matrices" /\ result.kind = "None"
  /\ matA # << >> /\ matB # << >>
  /\ Len(matA[1]) # Len(matB) /\ Len(matA[1]) = Len(matB[1])

\* C3: for rectangular A (rA x cA) and B (cA x cB) multiply_matrices returns
\* a present matrix of exactly rA rows of exactly cB entries, and C[i][j] is
\* the sum over k, accumulated in ascending k, of A[i][k] * B[k][j]
C3_Product ==
  ( /\ op = "multiply_matrices"
    /\ matA # << >> /\ matB # << >>
    /\ IsRectangular(matA) /\ IsRectangular(matB)
    /\ Len(matA[1]) = Len(matB) ) =>
     /\ result.kind = "Some"
     /\ Len(result.value) = Len(matA)
     /\ \A i \in 1 .. Len(matA) :
          /\ Len(result.value[i]) = Len(matB[1])
          /\ \A j \in 1 .. Len(matB[1]) :
               LET term(k) == FMul(matA[i][k], matB[k][j])
               IN result.value[i][j] = AscendingSum(term, Len(matB))

\* a product with cA = 3 in which a cell was rounded and summing in descending
\* k would have given another value
C3_Witness ==
  /\ op = "multiply_matrices" /\ result.kind = "Some"
  /\ IsRectangular(matA) /\ IsRectangular(matB)
  /\ Len(matA) >= 2 /\ Len(matB) = 3 /\ Len(matB[1]) >= 2
  /\ LET t(k) == FMul(matA[1][k], matB[k][1])
     IN /\ IsFinite(result.value[1][1])
        /\ result.value[1][1] # FAdd(FAdd(FAdd(0, t(3)), t(2)), t(1))
        /\ result.value[1][1] #
             matA[1][1] * matB[1][1] + matA[1][2] * matB[2][1] + matA[1][3] * matB[3][1]

\* C4: compute_heavy_task reports success = true, and its value is 0.0 for
\* empty data and otherwise (sum + product + sum of squares) / length
C4_HeavyTask ==
  op = "compute_heavy_task" =>
     LET elem(k) == data[k]
         square(k) == FMul(data[k], data[k])
         n == Len(data)
     IN /\ result.success = TRUE
        /\ result.value =
             IF n = 0 THEN 0
             ELSE FDiv(FAdd(FAdd(AscendingSum(elem, n), AscendingProduct(elem, n)),
                            AscendingSum(square, n)),
                       Round(n, 1))

C4_Witness ==
  /\ op = "compute_heavy_task" /\ Len(data) = 3 /\ result.success
  /\ IsFinite(result.value) /\ result.value > 0

\* C5 as stated: for a non-empty NaN-free d, calculate_statistics returns
\* mean = sum(d) / n, min the least and max the greatest element of d, and
\* min <= mean <= max
C5_MeanBetweenMinAndMax ==
  (op = "calculate_statistics" /\ data # << >> /\ NaNFree(data)) =>
     LET elem(k) == data[k]
         n == Len(data)
     IN /\ result.kind = "ok"
        /\ result.stats.mean = FDiv(AscendingSum(elem, n), Round(n, 1))
        /\ result.stats.min = KthSmallest(data, 1)
        /\ result.stats.max = KthSmallest(data, n)
        /\ FLe(result.stats.min, result.stats.mean)
        /\ FLe(result.stats.mean, result.stats.max)

\* the sum of finite elements, exactly
RECURSIVE ExactSum(_)
ExactSum(s) == IF s = << >> THEN 0 ELSE ExactSum(Front(s)) + Last(s)

\* C5 amended: for a non-empty NaN-free d, calculate_statistics returns
\* mean = sum(d) / n in IEEE arithmetic, min the least and max the greatest
\* element of d, and min <= max; min <= mean <= max holds when the elements
\* are finite and their IEEE sum is exact (neither rounded nor overflowed)
C5_MeanBetweenWhenSumExact ==
  (op = "calculate_statistics" /\ data # << >> /\ NaNFree(data)) =>
     LET elem(k) == data[k]
         n == Len(data)
     IN /\ result.kind = "ok"
        /\ result.stats.mean = FDiv(AscendingSum(elem, n), Round(n, 1))
        /\ result.stats.min = KthSmallest(data, 1)
        /\ result.stats.max = KthSmallest(data, n)
        /\ FLe(result.stats.min, result.stats.max)
        /\ ( /\ \A i \in 1 .. n : IsFinite(data[i])
             /\ IsFinite(AscendingSum(elem, n))
             /\ AscendingSum(elem, n) = ExactSum(data) ) =>
              /\ FLe(result.stats.min, result.stats.mean)
              /\ FLe(result.stats.mean, result.stats.max)

\* an unsorted slice whose sum is exact and whose mean is rounded
C5_Witness ==
  /\ op = "calculate_statistics" /\ result.kind = "ok"
  /\ Len(data) = 3 /\ \A i \in 1 .. 3 : IsFinite(data[i])
  /\ data[1] > data[2] /\ data[2] < data[3]
  /\ IsFinite(IterSum(data)) /\ IterSum(data) = ExactSum(data)
  /\ result.stats.mean * 3 # ExactSum(data)
  /\ result.stats.min < result.stats.mean /\ result.stats.mean < result.stats.max

\* C6: for a non-empty NaN-free d of length n the median is the middle
\* element of d sorted ascending when n is odd (an element of d), and the
\* mean (a + b) / 2 of the two central elements when n is even; the caller's
\* d is not reordered
C6_Median ==
  (op = "calculate_statistics" /\ data # << >> /\ NaNFree(data)) =>
     LET n == Len(data)
     IN /\ result.kind = "ok"
        /\ n % 2 = 1 =>
             /\ result.stats.median = KthSmallest(data, (n + 1) \div 2)
             /\ result.stats.median \in Range(data)
        /\ n % 2 = 0 =>
             result.stats.median =
               FDiv(FAdd(KthSmallest(data, n \div 2), KthSmallest(data, (n \div 2) + 1)), 2)
        /\ dataAfter = data

\* an unsorted slice of even length whose central elements differ
C6_Witness ==
  /\ op = "calculate_statistics" /\ result.kind = "ok"
  /\ Len(data) = 2 /\ NaNFree(data) /\ data[1] > data[2] /\ IsFinite(data[1])
  /\ IsFinite(data[2])
  /\ result.stats.median # data[1] /\ result.stats.median # data[2]
  /\ dataAfter = data

\* C7: after any sequence of kernel calls the engine's cache is the empty
\* mapping it was constructed with and its config is the one given to new
C7_EngineUntouched ==
  /\ engine.cache = HashMapNew
  /\ DOMAIN engine.cache = {}
  /\ engine.config = ctorConfig

\* a result is held, so a kernel has run on the engine
C7_Witness ==
  /\ op = "fourier_transform" /\ Len(data) = 2
  /\ engine.cache = HashMapNew
  /\ engine.config = [max_workers |-> 1, timeout_seconds |-> 0]

\* C9: compute_parallel returns a sequence of the length of its input whose
\* i-th element is the square of the i-th input element
C9_Squares ==
  op = "compute_parallel" =>
     /\ Len(result) = Len(data)
     /\ \A i \in 1 .. Len(data) : result[i] = FMul(data[i], data[i])

C9_Witness ==
  /\ op = "compute_parallel" /\ Len(data) = 3
  /\ data[1] # data[3] /\ result[1] # result[3] /\ result[2] = Inf

(* -------------------- OptimizationEngine: the calls -------------------- *)
InitOpt ==
  /\ engine = ComputeEngineNew([max_workers |-> 4, timeout_seconds |-> 30])
  /\ ctorConfig = [max_workers |-> 4, timeout_seconds |-> 30]
  /\ NoCall
  /\ \E m \in IterationLimits, t \in Tolerances : opt = OptimizationEngineNew(m, t)
  /\ GDIdle

\* gradient_descent(x0, f) is entered
GradientDescentCall ==
  /\ pc \in {"idle", "done"}
  /\ \E x0 \in StartPoints, f \in Objectives :
       /\ fn' = f /\ x' = x0 /\ x_prev' = x0 /\ x_new' = x0
  /\ pc' = "loop"
  /\ iter' = 0 /\ evals' = 0 /\ broke' = FALSE /\ ret' = 0
  /\ UNCHANGED <<opt, engineVars, kernelVars>>

\* faulty variant: x is assigned before the convergence check, so a converged
\* call returns x_new
GradientDescentIterate_AssignFirst ==
  /\ pc = "loop"
  /\ LoopContinues(iter, opt.max_iterations)
  /\ LET grad == Gradient(fn, x)
         xn == Update(x, grad)
     IN /\ x_prev' = x
        /\ x_new' = xn
        /\ evals' = evals + 2
        /\ iter' = iter + 1
        /\ x' = xn
        /\ IF Converged(xn, x, opt.tolerance)
           THEN /\ broke' = TRUE /\ pc' = "return"
           ELSE /\ broke' = FALSE /\ pc' = "loop"
  /\ UNCHANGED <<opt, fn, ret, engineVars, kernelVars>>

\* one pass through the body of `for _ in 0..self.max_iterations`
GradientDescentIterate ==
  /\ pc = "loop"
  /\ LoopContinues(iter, opt.max_iterations)
  /\ LET grad == Gradient(fn, x)
         xn == Update(x, grad)
     IN /\ x_prev' = x
        /\ x_new' = xn
        /\ evals' = evals + 2
        /\ iter' = iter + 1
        /\ IF Converged(xn, x, opt.tolerance)
           THEN /\ broke' = TRUE /\ pc' = "return" /\ x' = x
           ELSE /\ broke' = FALSE /\ pc' = "loop" /\ x' = xn
  /\ UNCHANGED <<opt, fn, ret, engineVars, kernelVars>>

\* the range 0..max_iterations is exhausted
GradientDescentLoopEnd ==
  /\ pc = "loop"
  /\ ~LoopContinues(iter, opt.max_iterations)
  /\ pc' = "return"
  /\ UNCHANGED <<opt, fn, x, x_prev, x_new, iter, evals, broke, ret,
                 engineVars, kernelVars>>

\* the tail expression `x`
GradientDescentReturn ==
  /\ pc = "return"
  /\ ret' = x
  /\ pc' = "done"
  /\ UNCHANGED <<opt, fn, x, x_prev, x_new, iter, evals, broke,
                 engineVars, kernelVars>>

NextOpt ==
  \/ GradientDescentCall
  \/ GradientDescentIterate
  \/ GradientDescentLoopEnd
  \/ GradientDescentReturn

\* a call that has been entered runs on: the body is sequential code
SpecOpt ==
  /\ InitOpt
  /\ [][NextOpt]_vars
  /\ WF_vars(GradientDescentIterate \/ GradientDescentLoopEnd \/ GradientDescentReturn)

(* ------------------- gradient_descent: what it returns ----------------- *)
\* learning_rate = 0.01 in units of h
LearningRate == UnitsPerOne \div LearningRateInv

\* C1 as stated: when an iteration finds |x_new - x| < tolerance, the loop
\* stops and the value returned is that x_new
C1_ReturnsNewX ==
  (pc = "done" /\ broke) => ret = x_new

\* C1 amended: when an iteration finds |x_new - x| < tolerance, the loop stops
\* and the value returned is the x the iteration started from; the x_new it
\* computed is dropped
C1_ReturnsOldX ==
  (pc = "done" /\ broke) =>
     /\ Converged(x_new, x_prev, opt.tolerance)
     /\ ret = x_prev

C1_Witness ==
  pc = "done" /\ broke /\ iter > 1 /\ ret = x_prev /\ x_new # x_prev

C10_Invariant ==
  /\ iter <= opt.max_iterations
  /\ evals = 2 * iter
  /\ (pc = "done" /\ ~broke) =>
        /\ iter = opt.max_iterations
        /\ iter > 0 => ret = x_new

C10_Terminates ==
  /\ []C10_Invariant
  /\ (pc = "loop") ~> (pc = "done")

C10_Witness ==
  pc = "done" /\ ~broke /\ iter = opt.max_iterations /\ iter > 1
  /\ ret = x_new /\ x_new # x_prev
====
